---- MODULE Spec2Model ----
(***************************************************************************)
(* Model of tramites-bo: update.py (listing, bounded detail download,      *)
(* residual retries, snapshot diff, persistence) and utils.py (the         *)
(* async_http_retry decorator).                                            *)
(*                                                                         *)
(* Spec      : runs of main() (update.py:159-213).                         *)
(* SpecRetry : calls of async_http_retry(...).wrapper (utils.py:14-43).    *)
(* SpecDiff  : calls of detectarAdiciones / detectarModificaciones on      *)
(*             pairs of snapshots (update.py:76-156).                      *)
(* SpecBitacora : the two comparisons run after run on the same logs.      *)
(* SpecListado  : Spec with every page answered after finitely many        *)
(*             failed requests (update.py:22-36).                          *)
(* SpecCatalogo : Spec with a catalog that changes during the listing.     *)
(* SpecAbort : Spec with the process killed during a run.                  *)
(***************************************************************************)
EXTENDS Integers, Sequences, FiniteSets, TLC

VARIABLES
    \* ---- main() and the functions it calls (update.py)
    pc,                 \* position of main()
    corrida,            \* number of the current process run (1, 2, ...)
    timestamp,          \* update.py:176 (minute of the run, as a number)
    page,               \* listarTramites: page
    tramitesListado,    \* listarTramites: tramites / main: tramitesListado
    refs,               \* getTramites: the argument tramitesListado
    subset,             \* getTramites: subset (the references of this call)
    task,               \* getTramites: state of each fetch_one task
    sema,               \* getTramites: free slots of asyncio.Semaphore
    gt_tramites,        \* getTramites: tramites (local list)
    gt_errores,         \* getTramites: errores (local list)
    peticiones,         \* client.get calls issued by each fetch_one task
    tramites,           \* main: tramites
    errores_tramites,   \* main: errores_tramites
    RETRIES,            \* main: RETRIES
    catalogo,           \* the catalog the listing endpoint serves now
    \* ---- files
    tramites_file,      \* tramites.jsonl
    errores_file,       \* errores.jsonl
    adiciones_file,     \* adiciones.csv
    modificaciones_file,\* modificaciones.csv
    \* ---- detectarAdiciones / detectarModificaciones called on their own
    d_pc, df1, df2, eventos, parts,
    \* ---- async_http_retry.wrapper (utils.py)
    r_pc, max_retries, delay, attempt, current_delay, last_exception,
    llamadas, esperas, resultado

mainVars == <<pc, corrida, page, tramitesListado, refs, subset, task, sema,
              gt_tramites, gt_errores, peticiones, tramites,
              errores_tramites, RETRIES, tramites_file, errores_file,
              catalogo>>
diffVars == <<d_pc, df1, df2, eventos, parts>>
logVars == <<timestamp, adiciones_file, modificaciones_file>>
retryVars == <<r_pc, max_retries, delay, attempt, current_delay,
               last_exception, llamadas, esperas, resultado>>
vars == <<mainVars, diffVars, logVars, retryVars>>

(***************************************************************************)
(* Bounds of the model and constants of the program                        *)
(***************************************************************************)
\* size of the remote catalog
NumTramites == 2
\* pageSize of listarTramites (30 in the program), scaled to the catalog
PageSize == 1
\* max_concurrent of getTramites (10 in the program), scaled to the catalog
MaxConcurrent == 1
\* residual passes after which the model stops following the retry loop
MaxPasadas == 6
\* process runs followed
MaxCorridas == 2
\* main: RETRIES = 5
RETRIES_INICIAL == 5
\* async_http_retry: max_retries: int = 3
DEFAULT_MAX_RETRIES == 3
\* getTramites: max_tramites=None
None_max_tramites == -1
\* ids a snapshot may hold
NumIds == 2
\* consecutive comparisons followed on one pair of logs
MaxComparaciones == 2
\* largest max_retries given to async_http_retry
MaxRetriesModelo == 3
\* largest delay given to async_http_retry
MaxDelay == 2

(***************************************************************************)
(* Generic helpers                                                         *)
(***************************************************************************)
Range(s) == {s[i] : i \in DOMAIN s}

Min(a, b) == IF a < b THEN a ELSE b

\* a file: absent, or a sequence of lines / rows
Ausente == [existe |-> FALSE, lineas |-> <<>>]
Archivo(ls) == [existe |-> TRUE, lineas |-> ls]

(***************************************************************************)
(* The remote service                                                      *)
(***************************************************************************)
\* one row of the listing endpoint, reduced to id, nombre, slug (line 28)
Referencia(i) == [id |-> i, nombre |-> "n", slug |-> i]

\* the catalog served by the listing endpoint when a run starts
Catalogo == [i \in 1..NumTramites |-> Referencia(i)]

\* datos["filas"] of page p with limite = PageSize
Filas(p) ==
    SubSeq(catalogo, Min((p - 1) * PageSize + 1, Len(catalogo) + 1),
                     Min(p * PageSize, Len(catalogo)))

\* datos["total"]
Total == Len(catalogo)

\* data["datos"] of the detail endpoint for a slug
Detalle(slug) ==
    [id |-> slug, nombre |-> "n", entidad |-> [nombre |-> "e"], estado |-> "a"]

\* outcomes of one client.get + raise_for_status + json (lines 45-47, 64):
\* a record, a network/timeout error, or any other error
Desenlaces == {"ok", "red", "otro"}

(***************************************************************************)
(* listarTramites (update.py:14-37)                                        *)
(***************************************************************************)
\* the request or the decoding of the answer raises: the except clause
\* prints and the loop asks for the same page again (lines 35-36)
listarTramites_excepcion ==
    /\ pc = "listar"
    /\ UNCHANGED vars

\* an answered page that is added while page stays as it is
listarTramites_pagina_sinAvanzar ==
    /\ pc = "listar"
    /\ Len(tramitesListado \o Filas(page)) < Total
    /\ tramitesListado' = tramitesListado \o Filas(page)
    /\ UNCHANGED <<pc, corrida, page, refs, subset, task, sema, gt_tramites,
                   gt_errores, peticiones, tramites, errores_tramites,
                   RETRIES, tramites_file, errores_file>>
    /\ UNCHANGED <<diffVars, logVars, retryVars>>
    /\ UNCHANGED catalogo

\* one answered page that is not the last (lines 24-34)
listarTramites_pagina ==
    /\ pc = "listar"
    /\ Len(tramitesListado \o Filas(page)) < Total
    /\ tramitesListado' = tramitesListado \o Filas(page)
    /\ page' = page + 1
    /\ UNCHANGED <<pc, corrida, refs, subset, task, sema, gt_tramites,
                   gt_errores, peticiones, tramites, errores_tramites,
                   RETRIES, tramites_file, errores_file>>
    /\ UNCHANGED <<diffVars, logVars, retryVars>>
    /\ UNCHANGED catalogo

\* the answered page that reaches datos["total"]: break, return (31-32, 37);
\* main then takes the timestamp (line 176)
listarTramites_ultima ==
    /\ pc = "listar"
    /\ Len(tramitesListado \o Filas(page)) >= Total
    /\ tramitesListado' = tramitesListado \o Filas(page)
    /\ timestamp' = corrida
    /\ pc' = "main_179"
    /\ UNCHANGED <<corrida, page, refs, subset, task, sema, gt_tramites,
                   gt_errores, peticiones, tramites, errores_tramites,
                   RETRIES, tramites_file, errores_file>>
    /\ UNCHANGED <<diffVars, adiciones_file, modificaciones_file, retryVars>>
    /\ UNCHANGED catalogo

(***************************************************************************)
(* getTramites (update.py:50-73)                                           *)
(***************************************************************************)
\* line 57
Subset(lista, max_tramites) ==
    IF max_tramites = None_max_tramites
    THEN lista
    ELSE SubSeq(lista, 1, Min(max_tramites, Len(lista)))

\* lines 54-58 and the creation of the fetch_one tasks of line 70
getTramites_inicio(lista) ==
    /\ refs' = lista
    /\ subset' = Subset(lista, None_max_tramites)
    /\ task' = [i \in 1..Len(Subset(lista, None_max_tramites)) |-> "pendiente"]
    /\ peticiones' = [i \in 1..Len(Subset(lista, None_max_tramites)) |-> 0]
    /\ sema' = MaxConcurrent
    /\ gt_tramites' = <<>>
    /\ gt_errores' = <<>>

EnGetTramites == pc \in {"getTramites_179", "getTramites_183"}

\* a semaphore that never makes a task wait
PuedeEntrar_sinLimite == TRUE

\* asyncio.Semaphore.acquire does not block (line 61)
PuedeEntrar == sema > 0

\* fetch_one enters "async with sema" and issues the request (61-63)
fetch_one_entra(i) ==
    /\ EnGetTramites
    /\ task[i] = "pendiente"
    /\ PuedeEntrar
    /\ sema' = sema - 1
    /\ task' = [task EXCEPT ![i] = "enVuelo"]
    /\ peticiones' = [peticiones EXCEPT ![i] = @ + 1]
    /\ UNCHANGED <<pc, corrida, page, tramitesListado, refs, subset,
                   gt_tramites, gt_errores, tramites, errores_tramites,
                   RETRIES, tramites_file, errores_file>>
    /\ UNCHANGED <<diffVars, logVars, retryVars>>
    /\ UNCHANGED catalogo

\* {**tramite, "error": str(e)} (line 66)
ConError(tramite, e) ==
    [k \in DOMAIN tramite \cup {"error"} |->
        IF k = "error" THEN e ELSE tramite[k]]

\* line 64
AnotarTramite(lista, tramite) == Append(lista, Detalle(tramite.slug))

\* an except clause that swallows the failure
AnotarError_perdido(lista, tramite, e) == lista

\* line 66
AnotarError(lista, tramite, e) == Append(lista, ConError(tramite, e))

\* a slot that is kept when "async with sema" is left
Liberar_nunca(s) == s

\* the slot given back when "async with sema" is left (line 61)
Liberar(s) == s + 1

\* the request of task i ends with outcome d: lines 64 or 65-66, 67 and the
\* release of the semaphore, with no await in between
fetch_one_termina(i, d) ==
    /\ EnGetTramites
    /\ task[i] = "enVuelo"
    /\ IF d = "ok"
       THEN /\ gt_tramites' = AnotarTramite(gt_tramites, subset[i])
            /\ UNCHANGED gt_errores
       ELSE /\ gt_errores' = AnotarError(gt_errores, subset[i], d)
            /\ UNCHANGED gt_tramites
    /\ sema' = Liberar(sema)
    /\ task' = [task EXCEPT ![i] = "hecho"]
    /\ UNCHANGED <<pc, corrida, page, tramitesListado, refs, subset,
                   peticiones, tramites, errores_tramites, RETRIES,
                   tramites_file, errores_file>>
    /\ UNCHANGED <<diffVars, logVars, retryVars>>
    /\ UNCHANGED catalogo

\* asyncio.gather has every task finished (line 70)
TodosHechos == \A i \in DOMAIN task : task[i] = "hecho"

(***************************************************************************)
(* main (update.py:159-209)                                                *)
(***************************************************************************)
\* line 179: the first call of getTramites
Main_179_llama ==
    /\ pc = "main_179"
    /\ getTramites_inicio(tramitesListado)
    /\ pc' = "getTramites_179"
    /\ UNCHANGED <<corrida, page, tramitesListado, tramites,
                   errores_tramites, RETRIES, tramites_file, errores_file>>
    /\ UNCHANGED <<diffVars, logVars, retryVars>>
    /\ UNCHANGED catalogo

\* line 179: getTramites returns (line 73)
Main_179_retorna ==
    /\ pc = "getTramites_179"
    /\ TodosHechos
    /\ tramites' = gt_tramites
    /\ errores_tramites' = gt_errores
    /\ pc' = "main_181"
    /\ UNCHANGED <<corrida, page, tramitesListado, refs, subset, task, sema,
                   gt_tramites, gt_errores, peticiones, RETRIES,
                   tramites_file, errores_file>>
    /\ UNCHANGED <<diffVars, logVars, retryVars>>
    /\ UNCHANGED catalogo

\* a loop that stops when RETRIES has been used up
SigueReintentando_acotado(errs, retries) == errs /= <<>> /\ retries > 0

\* line 181: the condition of the while
SigueReintentando(errs, retries) == errs /= <<>> \/ retries = 0

\* residual passes made so far (RETRIES is decremented once per pass)
Pasadas == RETRIES_INICIAL - RETRIES

\* lines 181-183: the loop is entered and getTramites called on the errors
Main_181_entra ==
    /\ pc = "main_181"
    /\ SigueReintentando(errores_tramites, RETRIES)
    /\ Pasadas < MaxPasadas
    /\ getTramites_inicio(errores_tramites)
    /\ pc' = "getTramites_183"
    /\ UNCHANGED <<corrida, page, tramitesListado, tramites,
                   errores_tramites, RETRIES, tramites_file, errores_file>>
    /\ UNCHANGED <<diffVars, logVars, retryVars>>
    /\ UNCHANGED catalogo

\* lines 183-186: getTramites returns inside the loop
Main_183_retorna ==
    /\ pc = "getTramites_183"
    /\ TodosHechos
    /\ tramites' = tramites \o gt_tramites
    /\ errores_tramites' = gt_errores
    /\ RETRIES' = RETRIES - 1
    /\ pc' = "main_181"
    /\ UNCHANGED <<corrida, page, tramitesListado, refs, subset, task, sema,
                   gt_tramites, gt_errores, peticiones, tramites_file,
                   errores_file>>
    /\ UNCHANGED <<diffVars, logVars, retryVars>>
    /\ UNCHANGED catalogo

\* line 181: the loop is left
Main_181_sale ==
    /\ pc = "main_181"
    /\ ~SigueReintentando(errores_tramites, RETRIES)
    /\ pc' = "main_189"
    /\ UNCHANGED <<corrida, page, tramitesListado, refs, subset, task, sema,
                   gt_tramites, gt_errores, peticiones, tramites,
                   errores_tramites, RETRIES, tramites_file, errores_file>>
    /\ UNCHANGED <<diffVars, logVars, retryVars>>
    /\ UNCHANGED catalogo

(***************************************************************************)
(* Tables (pandas.DataFrame) and sorting                                   *)
(***************************************************************************)
\* a missing cell of a table (NaN) and JSON null (None); both are isna()
NaN == "NaN"
NoneJson == "None"
isna(v) == v \in {NaN, NoneJson}

\* lexicographic order of two tuples of numbers of the same length
LexMenor(a, b) ==
    \E i \in DOMAIN a :
        /\ a[i] < b[i]
        /\ \A j \in 1..(i - 1) : a[j] = b[j]

\* stable insertion of the pair p = <<key, value>> in a sorted sequence
RECURSIVE InsertarOrdenado(_, _)
InsertarOrdenado(s, p) ==
    IF s = <<>> THEN <<p>>
    ELSE IF LexMenor(p[1], Head(s)[1]) THEN <<p>> \o s
    ELSE <<Head(s)>> \o InsertarOrdenado(Tail(s), p)

RECURSIVE OrdenarPares(_)
OrdenarPares(s) ==
    IF s = <<>> THEN <<>>
    ELSE InsertarOrdenado(OrdenarPares(SubSeq(s, 1, Len(s) - 1)), s[Len(s)])

\* rows left in the order they came
Ordenar_sinOrden(s, claves) == s

\* sorted(s, key=...) / DataFrame.sort_values(...): claves[i] is the key of
\* s[i]
Ordenar(s, claves) ==
    LET pares == OrdenarPares([i \in DOMAIN s |-> <<claves[i], s[i]>>])
    IN  [i \in DOMAIN s |-> pares[i][2]]

\* pd.json_normalize of one record: nested keys joined with a dot
Aplanar(r) ==
    [k \in (DOMAIN r \ {"entidad"}) \cup
           (IF "entidad" \in DOMAIN r THEN {"entidad.nombre"} ELSE {}) |->
        IF k = "entidad.nombre" THEN r.entidad.nombre ELSE r[k]]

\* pd.json_normalize of a list of records (lines 190, 192): the columns are the
\* union of the keys, a key a record lacks is NaN
json_normalize(lista) ==
    LET cols == UNION {DOMAIN Aplanar(lista[i]) : i \in DOMAIN lista}
    IN  [cols |-> cols,
         filas |-> [i \in DOMAIN lista |->
                      [k \in cols |-> IF k \in DOMAIN Aplanar(lista[i])
                                      THEN Aplanar(lista[i])[k] ELSE NaN]]]

\* df["id"] as a set
Ids(df) == {df.filas[i].id : i \in DOMAIN df.filas}

(***************************************************************************)
(* detectarAdiciones (update.py:124-156)                                   *)
(***************************************************************************)
\* lines 135-140
formatear(filas, evento, ts) ==
    [i \in DOMAIN filas |->
        [timestamp |-> ts, tipo |-> evento, id |-> filas[i].id,
         entidad |-> filas[i]["entidad.nombre"], nombre |-> filas[i].nombre]]

\* events built without the isin filters
Eventos_sinFiltro(a, b, ts) ==
    formatear(b.filas, "aparece", ts) \o formatear(a.filas, "desaparece", ts)

\* lines 143-148
Eventos(a, b, ts) ==
    formatear(SelectSeq(b.filas, LAMBDA r : r.id \notin Ids(a)), "aparece", ts)
    \o
    formatear(SelectSeq(a.filas, LAMBDA r : r.id \notin Ids(b)), "desaparece", ts)

ColumnasBitacora == {"id", "entidad.nombre", "nombre"}

\* the exception detectarAdiciones ends with: a table without the columns
\* of lines 136 and 145-146 gives KeyError; otherwise line 151 takes len() of
\* the integer eventos.shape[0], which is a TypeError
detectarAdiciones_excepcion(a, b) ==
    IF ColumnasBitacora \subseteq a.cols /\ ColumnasBitacora \subseteq b.cols
    THEN "TypeError"
    ELSE "KeyError"

\* the whole call: the events are built (143-148) when the columns are there,
\* the exception leaves before lines 152-156, so adiciones.csv is not written
detectarAdiciones(a, b, ts) ==
    /\ eventos' = IF detectarAdiciones_excepcion(a, b) = "TypeError"
                  THEN Eventos(a, b, ts) ELSE <<>>
    /\ adiciones_file' = adiciones_file

(***************************************************************************)
(* The audit logs as CSV files                                             *)
(***************************************************************************)
\* DataFrame.to_csv of one cell: a missing value is written as nothing
CeldaCsv(v) == IF isna(v) THEN "" ELSE v

\* texts pd.read_csv takes for a missing value besides the empty cell (its
\* default na_values: "N/A", "NA", "null", "NaN", "None", ...); of these the
\* snapshots of the model use "N/A"
TextosNA == {"", "N/A"}

\* pd.read_csv of one cell (line 118, default arguments)
LeerCelda(c) == IF c \in TextosNA THEN NaN ELSE c

\* position of a column name in the order of strings
RangoColumna(c) ==
    CASE c = "entidad.nombre" -> 1
      [] c = "estado" -> 2
      [] c = "nombre" -> 3

\* the columns of a table other than id, in the order they are walked
ColumnasOrdenadas == <<"entidad.nombre", "estado", "nombre">>

(***************************************************************************)
(* detectarModificaciones (update.py:76-121)                               *)
(***************************************************************************)
\* the row of a table with a given id (tables here have unique ids)
Fila(df, id) == CHOOSE r \in Range(df.filas) : r.id = id

\* line 89
ColumnasComunes(a, b) == {c \in a.cols : c \in b.cols /\ c /= "id"}

\* line 90, in the order of the first table
IdsComunes(a, b) ==
    LET comunes == SelectSeq(a.filas, LAMBDA r : r.id \in Ids(b))
    IN  [i \in DOMAIN comunes |-> comunes[i].id]

\* Series.ne: a missing value is different from everything, itself included
ne(old, new) == isna(old) \/ isna(new) \/ old /= new

\* a comparison that takes two missing values for a change
Modificado_sinMascara(old, new) == ne(old, new)

\* line 97
Modificado(old, new) == ne(old, new) /\ ~(isna(old) /\ isna(new))

\* lines 96-111 for one column: one row per modified id
ParteDe(a, b, col, ts) ==
    LET idx == SelectSeq(IdsComunes(a, b),
                         LAMBDA v : Modificado(Fila(a, v)[col], Fila(b, v)[col]))
    IN  [i \in DOMAIN idx |->
            [timestamp |-> ts,
             id |-> idx[i],
             entidad |-> Fila(a, idx[i])["entidad.nombre"],
             nombre |-> Fila(a, idx[i]).nombre,
             columna |-> col,
             viejo |-> Fila(a, idx[i])[col],
             nuevo |-> Fila(b, idx[i])[col]]]

\* lines 94-111 and 116: the parts of all compared columns, concatenated
RECURSIVE PartesDesde(_, _, _, _)
PartesDesde(a, b, ts, k) ==
    IF k > Len(ColumnasOrdenadas) THEN <<>>
    ELSE (IF ColumnasOrdenadas[k] \in ColumnasComunes(a, b)
          THEN ParteDe(a, b, ColumnasOrdenadas[k], ts) ELSE <<>>)
         \o PartesDesde(a, b, ts, k + 1)

Partes(a, b, ts) == PartesDesde(a, b, ts, 1)

\* to_csv / read_csv of a row of modificaciones.csv
FilaModCsv(e) ==
    [e EXCEPT !.entidad = CeldaCsv(@), !.nombre = CeldaCsv(@),
              !.viejo = CeldaCsv(@), !.nuevo = CeldaCsv(@)]

LeerFilaMod(e) ==
    [e EXCEPT !.entidad = LeerCelda(@), !.nombre = LeerCelda(@),
              !.viejo = LeerCelda(@), !.nuevo = LeerCelda(@)]

ClaveMod(e) == <<e.timestamp, e.id, RangoColumna(e.columna)>>

\* lines 115-121: the new rows after the rows read from the file, sorted,
\* written; nothing is written when there is no new row
GuardarModificaciones(archivo, nuevas) ==
    IF Len(nuevas) > 0
    THEN LET todas == (IF archivo.existe
                       THEN [i \in DOMAIN archivo.lineas |->
                                LeerFilaMod(archivo.lineas[i])]
                       ELSE <<>>) \o nuevas
             ordenadas == Ordenar(todas, [i \in DOMAIN todas |-> ClaveMod(todas[i])])
         IN  Archivo([i \in DOMAIN ordenadas |-> FilaModCsv(ordenadas[i])])
    ELSE archivo

\* set_index("id") of line 86 raises KeyError on a table without that column,
\* lines 87-88 on a first table without nombre or entidad.nombre
detectarModificaciones_excepcion(a, b) ==
    IF ColumnasBitacora \subseteq a.cols /\ "id" \in b.cols
    THEN "-"
    ELSE "KeyError"

\* the whole call
detectarModificaciones(a, b, ts) ==
    IF detectarModificaciones_excepcion(a, b) = "-"
    THEN /\ parts' = Partes(a, b, ts)
         /\ modificaciones_file' =
                GuardarModificaciones(modificaciones_file, Partes(a, b, ts))
    ELSE /\ parts' = <<>>
         /\ modificaciones_file' = modificaciones_file

(***************************************************************************)
(* main, continued: diff and persistence (update.py:188-209)               *)
(***************************************************************************)
\* line 189: no tramites.jsonl, nothing to compare with
Main_189_sinPrevio ==
    /\ pc = "main_189"
    /\ ~tramites_file.existe
    /\ pc' = "main_198"
    /\ UNCHANGED <<corrida, page, tramitesListado, refs, subset, task, sema,
                   gt_tramites, gt_errores, peticiones, tramites,
                   errores_tramites, RETRIES, tramites_file, errores_file>>
    /\ UNCHANGED <<diffVars, logVars, retryVars>>
    /\ UNCHANGED catalogo

\* lines 189-194: tramites.jsonl is read and detectarAdiciones called; its
\* exception is caught nowhere, so asyncio.run(main()) ends with it
Main_189_conPrevio ==
    /\ pc = "main_189"
    /\ tramites_file.existe
    /\ detectarAdiciones(json_normalize(tramites_file.lineas),
                         json_normalize(tramites), timestamp)
    /\ pc' = "abortado"
    /\ UNCHANGED <<corrida, page, tramitesListado, refs, subset, task, sema,
                   gt_tramites, gt_errores, peticiones, tramites,
                   errores_tramites, RETRIES, tramites_file, errores_file>>
    /\ UNCHANGED <<d_pc, df1, df2, parts, timestamp, modificaciones_file,
                   retryVars, catalogo>>

ClaveId(r) == <<r.id>>

\* nothing is written
Guardar_nunca(data, archivo) == archivo

\* lines 202-206: the file is opened for writing only when there is data
Guardar(data, archivo) ==
    IF data /= <<>> THEN Archivo(data) ELSE archivo

\* lines 198-209
Main_198_guardar ==
    /\ pc = "main_198"
    /\ tramites_file' =
           Guardar(Ordenar(tramites, [i \in DOMAIN tramites |-> ClaveId(tramites[i])]),
                   tramites_file)
    /\ errores_file' = Guardar(errores_tramites, errores_file)
    /\ pc' = "fin"
    /\ UNCHANGED <<corrida, page, tramitesListado, refs, subset, task, sema,
                   gt_tramites, gt_errores, peticiones, tramites,
                   errores_tramites, RETRIES>>
    /\ UNCHANGED <<diffVars, logVars, retryVars>>
    /\ UNCHANGED catalogo

\* lines 212-213: the script is run again
NuevaCorrida ==
    /\ pc \in {"fin", "abortado"}
    /\ corrida < MaxCorridas
    /\ corrida' = corrida + 1
    /\ pc' = "listar"
    /\ page' = 1
    /\ tramitesListado' = <<>>
    /\ refs' = <<>>
    /\ subset' = <<>>
    /\ task' = <<>>
    /\ sema' = 0
    /\ gt_tramites' = <<>>
    /\ gt_errores' = <<>>
    /\ peticiones' = <<>>
    /\ tramites' = <<>>
    /\ errores_tramites' = <<>>
    /\ RETRIES' = RETRIES_INICIAL
    /\ eventos' = <<>>
    /\ UNCHANGED <<tramites_file, errores_file, d_pc, df1, df2, parts, logVars,
                   retryVars, catalogo>>

(***************************************************************************)
(* Specification of main                                                   *)
(***************************************************************************)
\* an errores.jsonl left in the working directory before the first run
ErroresViejos == Archivo(<<ConError(Referencia(1), "red")>>)

DiffInactivo ==
    /\ d_pc = "-"
    /\ df1 = <<>>
    /\ df2 = <<>>
    /\ eventos = <<>>
    /\ parts = <<>>

RetryInactivo ==
    /\ r_pc = "-"
    /\ max_retries = 0
    /\ delay = 0
    /\ attempt = 0
    /\ current_delay = 0
    /\ last_exception = 0
    /\ llamadas = <<>>
    /\ esperas = <<>>
    /\ resultado = 0

MainInactivo ==
    /\ pc = "-"
    /\ corrida = 0
    /\ page = 0
    /\ tramitesListado = <<>>
    /\ refs = <<>>
    /\ subset = <<>>
    /\ task = <<>>
    /\ sema = 0
    /\ gt_tramites = <<>>
    /\ gt_errores = <<>>
    /\ peticiones = <<>>
    /\ tramites = <<>>
    /\ errores_tramites = <<>>
    /\ RETRIES = 0
    /\ tramites_file = Ausente
    /\ errores_file = Ausente
    /\ catalogo = <<>>

Init ==
    /\ pc = "listar"
    /\ corrida = 1
    /\ timestamp = 0
    /\ page = 1
    /\ tramitesListado = <<>>
    /\ refs = <<>>
    /\ subset = <<>>
    /\ task = <<>>
    /\ sema = 0
    /\ gt_tramites = <<>>
    /\ gt_errores = <<>>
    /\ peticiones = <<>>
    /\ tramites = <<>>
    /\ errores_tramites = <<>>
    /\ RETRIES = RETRIES_INICIAL
    /\ tramites_file = Ausente
    /\ errores_file \in {Ausente, ErroresViejos}
    /\ catalogo = Catalogo
    /\ adiciones_file = Ausente
    /\ modificaciones_file = Ausente
    /\ DiffInactivo
    /\ RetryInactivo

Next ==
    \/ listarTramites_excepcion
    \/ listarTramites_pagina
    \/ listarTramites_ultima
    \/ Main_179_llama
    \/ \E i \in DOMAIN task : fetch_one_entra(i)
    \/ \E i \in DOMAIN task : \E d \in Desenlaces : fetch_one_termina(i, d)
    \/ Main_179_retorna
    \/ Main_181_entra
    \/ Main_183_retorna
    \/ Main_181_sale
    \/ Main_189_sinPrevio
    \/ Main_189_conPrevio
    \/ Main_198_guardar
    \/ NuevaCorrida

Spec == Init /\ [][Next]_vars

\* the same program when every page is answered after finitely many failed
\* requests: the answered request is not put off forever
SpecListado ==
    Init /\ [][Next]_vars
         /\ WF_vars(listarTramites_pagina \/ listarTramites_ultima)

(***************************************************************************)
(* Properties of main                                                      *)
(***************************************************************************)
EnVuelo == {i \in DOMAIN task : task[i] = "enVuelo"}

Veces(lista, id) == Cardinality({j \in DOMAIN lista : lista[j].id = id})

FetchStep ==
    \/ \E i \in DOMAIN task : fetch_one_entra(i)
    \/ \E i \in DOMAIN task : \E d \in Desenlaces : fetch_one_termina(i, d)

\* C1: when a call of getTramites has all its tasks finished, every reference
\* passed to it has exactly one outcome, a record in tramites or an entry in
\* errores (so the two lengths add up to the number of references); and while
\* tasks remain, a recorded failure leaves the remaining fetches able to go on.
C1_UnDesenlacePorReferencia ==
    /\ (EnGetTramites /\ TodosHechos) =>
          /\ Len(gt_tramites) + Len(gt_errores) = Len(refs)
          /\ \A i \in DOMAIN refs :
                Veces(gt_tramites, refs[i].id) + Veces(gt_errores, refs[i].id)
                    = Veces(refs, refs[i].id)
    /\ (EnGetTramites /\ ~TodosHechos) => ENABLED FetchStep

\* a call on the whole listing that ended with a record and a failure
C1_Witness ==
    /\ EnGetTramites
    /\ TodosHechos
    /\ Len(refs) = NumTramites
    /\ gt_tramites /= <<>>
    /\ gt_errores /= <<>>

\* C2: in every state of getTramites the number of requests between the
\* acquisition of the semaphore and the end of the request is at most
\* max_concurrent.
C2_EnVueloAcotado ==
    /\ Cardinality(EnVuelo) <= MaxConcurrent
    /\ EnGetTramites => sema + Cardinality(EnVuelo) = MaxConcurrent

\* every slot taken while another task waits
C2_Witness ==
    /\ EnGetTramites
    /\ Cardinality(EnVuelo) = MaxConcurrent
    /\ \E i \in DOMAIN task : task[i] = "pendiente"

\* C3: main makes at most RETRIES = 5 residual passes: a pass is never
\* started after five have been made.
C3_ALoSumoCincoPasadas ==
    pc = "getTramites_183" => Pasadas < RETRIES_INICIAL

\* C4: a run that finds tramites.jsonl goes through detectarAdiciones and
\* detectarModificaciones to the persistence step: it never ends in between.
C4_DiffYGuardarCompletan ==
    ~(pc = "abortado" /\ tramites_file.existe)

\* C5: after a completed run errores.jsonl has been rewritten and holds
\* exactly the failures left unresolved by that run.
C5_ErroresReescritos ==
    pc = "fin" => errores_file = Archivo(errores_tramites)

\* C6: a reference is recorded in errores after a network/timeout failure only
\* when its request was issued max_retries + 1 times.
C6_ReintentoPorPeticion ==
    \A i \in DOMAIN task :
        (/\ EnGetTramites
         /\ task[i] = "hecho"
         /\ ConError(subset[i], "red") \in Range(gt_errores))
            => peticiones[i] = DEFAULT_MAX_RETRIES + 1

(***************************************************************************)
(* async_http_retry(max_retries, delay)(func) (utils.py:14-43)             *)
(***************************************************************************)
\* what one call of func does: return, raise aiohttp.ClientError, raise
\* asyncio.TimeoutError, or raise any other exception
DesenlacesFunc == {"ok", "ClientError", "TimeoutError", "otro"}

\* an except clause that catches every exception
Reintentable_todo(clase) == clase /= "ok"

\* line 31: the exceptions the except clause catches
Reintentable(clase) == clase \in {"ClientError", "TimeoutError"}

\* a break one attempt too early
UltimoIntento_antes(att, maxr) == att + 1 >= maxr

\* line 33
UltimoIntento(att, maxr) == att = maxr

\* last_exception = None (line 25)
SinExcepcion == [clase |-> "None", llamada |-> 0]

SinResultado == [tipo |-> "-", clase |-> "-", llamada |-> 0]

\* one iteration of the for loop (lines 28-38) with the outcome d of
\* func(*args, **kwargs), and lines 40-41 when the loop is left
wrapper_intento(d) ==
    /\ r_pc = "intento"
    /\ attempt <= max_retries
    /\ llamadas' = Append(llamadas, d)
    /\ LET e == [clase |-> d, llamada |-> Len(llamadas) + 1] IN
       IF d = "ok"
       THEN \* line 30: return
            /\ r_pc' = "retornado"
            /\ resultado' = [tipo |-> "return", clase |-> "ok",
                             llamada |-> Len(llamadas) + 1]
            /\ UNCHANGED <<attempt, current_delay, last_exception, esperas>>
       ELSE IF ~Reintentable(d)
       THEN \* not caught by line 31: the exception leaves the wrapper
            /\ r_pc' = "lanzado"
            /\ resultado' = [tipo |-> "raise", clase |-> e.clase,
                             llamada |-> e.llamada]
            /\ UNCHANGED <<attempt, current_delay, last_exception, esperas>>
       ELSE \* lines 32-38
            /\ last_exception' = e
            /\ IF UltimoIntento(attempt, max_retries)
               THEN \* break, then lines 40-41
                    /\ r_pc' = "lanzado"
                    /\ resultado' = [tipo |-> "raise", clase |-> e.clase,
                                     llamada |-> e.llamada]
                    /\ UNCHANGED <<attempt, current_delay, esperas>>
               ELSE \* lines 36-38, then the next value of range(), or
                    \* lines 40-41 when the range is used up
                    /\ esperas' = Append(esperas, current_delay)
                    /\ current_delay' = current_delay * 2
                    /\ IF attempt + 1 <= max_retries
                       THEN /\ attempt' = attempt + 1
                            /\ UNCHANGED <<r_pc, resultado>>
                       ELSE /\ r_pc' = "lanzado"
                            /\ resultado' = [tipo |-> "raise",
                                             clase |-> e.clase,
                                             llamada |-> e.llamada]
                            /\ UNCHANGED attempt
    /\ UNCHANGED <<max_retries, delay>>
    /\ UNCHANGED <<mainVars, diffVars, logVars>>

InitRetry ==
    /\ r_pc = "intento"
    /\ max_retries \in 0..MaxRetriesModelo
    /\ delay \in 1..MaxDelay
    /\ attempt = 0
    /\ current_delay = delay
    /\ last_exception = SinExcepcion
    /\ llamadas = <<>>
    /\ esperas = <<>>
    /\ resultado = SinResultado
    /\ MainInactivo
    /\ timestamp = 0
    /\ adiciones_file = Ausente
    /\ modificaciones_file = Ausente
    /\ DiffInactivo

NextRetry == \E d \in DesenlacesFunc : wrapper_intento(d)

SpecRetry == InitRetry /\ [][NextRetry]_vars

(***************************************************************************)
(* Properties of async_http_retry                                          *)
(***************************************************************************)
Terminado == r_pc \in {"retornado", "lanzado"}

\* the calls of func before the last one all raised a retryable exception
FallosReintentables(n) ==
    \A j \in 1..n : Reintentable(llamadas[j])

\* C7: when func raises a retryable exception on its first k calls and then
\* returns, with k <= max_retries, the wrapper returns that result and func
\* was called k + 1 times; when every call raises a retryable exception the
\* wrapper raises the exception of the last call and func was called
\* max_retries + 1 times.
C7_NumeroDeLlamadas ==
    /\ \A k \in 0..max_retries :
          (/\ Len(llamadas) > k
           /\ FallosReintentables(k)
           /\ llamadas[k + 1] = "ok")
             => /\ r_pc = "retornado"
                /\ Len(llamadas) = k + 1
                /\ resultado = [tipo |-> "return", clase |-> "ok",
                                llamada |-> k + 1]
    /\ (Terminado /\ FallosReintentables(Len(llamadas)))
          => /\ r_pc = "lanzado"
             /\ Len(llamadas) = max_retries + 1
             /\ resultado = [tipo |-> "raise",
                             clase |-> llamadas[max_retries + 1],
                             llamada |-> max_retries + 1]
             /\ last_exception.llamada = max_retries + 1
    /\ (r_pc = "intento" /\ FallosReintentables(Len(llamadas)))
          => Len(llamadas) <= max_retries

\* two failures and then success with max_retries = 3: three calls
C7_Witness ==
    /\ max_retries = 3
    /\ llamadas = <<"ClientError", "TimeoutError", "ok">>
    /\ r_pc = "retornado"

\* C8: when a call of func raises an exception that is not retryable, the
\* wrapper ends at once with that exception: no later call, no wait after it.
C8_FalloNoReintentable ==
    \A j \in DOMAIN llamadas :
        llamadas[j] = "otro"
            => /\ r_pc = "lanzado"
               /\ j = Len(llamadas)
               /\ resultado = [tipo |-> "raise", clase |-> "otro", llamada |-> j]
               /\ Len(esperas) = j - 1

\* a non-retryable failure after a retried one, with retries left
C8_Witness ==
    /\ llamadas = <<"ClientError", "otro">>
    /\ max_retries = 3
    /\ r_pc = "lanzado"

(***************************************************************************)
(* Specification of the diff functions on pairs of snapshots               *)
(***************************************************************************)
\* one record of a snapshot: estado may be missing, null or a value
Registro(i, nombre, estado) ==
    IF estado = "ausente"
    THEN [id |-> i, nombre |-> nombre, entidad |-> [nombre |-> "e"]]
    ELSE [id |-> i, nombre |-> nombre, entidad |-> [nombre |-> "e"],
          estado |-> estado]

Campos == {"n", "m"} \X {"ausente", NoneJson, "a"}

RECURSIVE IdsEnOrden(_)
IdsEnOrden(S) ==
    IF S = {} THEN <<>>
    ELSE LET m == CHOOSE x \in S : \A y \in S : x <= y
         IN  <<m>> \o IdsEnOrden(S \ {m})

\* the snapshots over given field values: records with different ids, in the
\* order of their ids
InstantaneasDe(campos) ==
    UNION {
        { [k \in DOMAIN IdsEnOrden(S) |->
              Registro(IdsEnOrden(S)[k], f[IdsEnOrden(S)[k]][1],
                       f[IdsEnOrden(S)[k]][2])] : f \in [S -> campos] }
        : S \in SUBSET (1..NumIds) }

Instantaneas == InstantaneasDe(Campos)

\* a modificaciones.csv written by an earlier comparison
ModificacionesViejas ==
    Archivo(<<[timestamp |-> 0, id |-> 1, entidad |-> "e", nombre |-> "n",
               columna |-> "nombre", viejo |-> "", nuevo |-> "n"]>>)

InitDiff ==
    /\ d_pc = "entrada"
    /\ \E previos \in Instantaneas \ {<<>>} : df1 = json_normalize(previos)
    /\ \E actuales \in Instantaneas : df2 = json_normalize(actuales)
    /\ timestamp = 1
    /\ eventos = <<>>
    /\ parts = <<>>
    /\ adiciones_file = Ausente
    /\ modificaciones_file \in {Ausente, ModificacionesViejas}
    /\ MainInactivo
    /\ RetryInactivo

\* detectarAdiciones(df1, df2, timestamp) is called
Diff_detectarAdiciones ==
    /\ d_pc = "entrada"
    /\ detectarAdiciones(df1, df2, timestamp)
    /\ d_pc' = "adiciones_" \o detectarAdiciones_excepcion(df1, df2)
    /\ UNCHANGED <<df1, df2, parts, timestamp, modificaciones_file>>
    /\ UNCHANGED <<mainVars, retryVars>>

\* detectarModificaciones(df1, df2, timestamp) is called
Diff_detectarModificaciones ==
    /\ d_pc = "entrada"
    /\ detectarModificaciones(df1, df2, timestamp)
    /\ d_pc' = "modificaciones_" \o detectarModificaciones_excepcion(df1, df2)
    /\ UNCHANGED <<df1, df2, eventos, timestamp, adiciones_file>>
    /\ UNCHANGED <<mainVars, retryVars>>

NextDiff ==
    \/ Diff_detectarAdiciones
    \/ Diff_detectarModificaciones

SpecDiff == InitDiff /\ [][NextDiff]_vars

(***************************************************************************)
(* Properties of the diff functions                                        *)
(***************************************************************************)
ModificacionesLlamada ==
    d_pc \in {"modificaciones_-", "modificaciones_KeyError"}

\* the rows of a log that carry the timestamp of this comparison
FilasDeEstaCorrida(archivo) ==
    {r \in Range(archivo.lineas) : r.timestamp = timestamp}

\* C9: after detectarAdiciones(df1, df2, timestamp) on two snapshots that have
\* the columns of the log, the membership log holds,
\* for this timestamp, one "aparece" row per id of df2 that is not in df1, one
\* "desaparece" row per id of df1 that is not in df2, and no other row.
C9_EventosDeMembresia ==
    d_pc = "adiciones_TypeError" =>
        /\ {<<r.id, r.tipo>> : r \in FilasDeEstaCorrida(adiciones_file)}
             = {<<i, "aparece">> : i \in Ids(df2) \ Ids(df1)}
               \cup {<<i, "desaparece">> : i \in Ids(df1) \ Ids(df2)}
        /\ Cardinality(FilasDeEstaCorrida(adiciones_file))
             = Cardinality(Ids(df2) \ Ids(df1))
               + Cardinality(Ids(df1) \ Ids(df2))

\* the (id, column) pairs that qualify: id in both snapshots, column (not id)
\* in both column sets, values different and not both absent/null
ParesModificados ==
    {p \in (Ids(df1) \cap Ids(df2)) \X ((df1.cols \cap df2.cols) \ {"id"}) :
        /\ Fila(df1, p[1])[p[2]] /= Fila(df2, p[1])[p[2]]
        /\ ~(isna(Fila(df1, p[1])[p[2]]) /\ isna(Fila(df2, p[1])[p[2]]))}

\* C10: detectarModificaciones(df1, df2, timestamp) emits an event for
\* (id, column) exactly when the pair qualifies, one event per pair, with the
\* value of df1 as viejo and the value of df2 as nuevo; the events are the
\* rows the call adds to modificaciones.csv.
C10_EventosDeModificacion ==
    ModificacionesLlamada =>
        /\ {<<parts[i].id, parts[i].columna>> : i \in DOMAIN parts}
             = ParesModificados
        /\ Len(parts) = Cardinality(ParesModificados)
        /\ \A i \in DOMAIN parts :
              /\ parts[i].timestamp = timestamp
              /\ parts[i].viejo = Fila(df1, parts[i].id)[parts[i].columna]
              /\ parts[i].nuevo = Fila(df2, parts[i].id)[parts[i].columna]
        /\ FilasDeEstaCorrida(modificaciones_file)
             = {FilaModCsv(parts[i]) : i \in DOMAIN parts}

\* a value against an absent one gives an event, two absent ones give none,
\* and the events join a log that already had a row
C10_Witness ==
    /\ d_pc = "modificaciones_-"
    /\ \E i \in DOMAIN parts :
          /\ parts[i].columna = "estado"
          /\ ~isna(parts[i].viejo)
          /\ isna(parts[i].nuevo)
    /\ \E i \in DOMAIN parts : parts[i].columna = "nombre"
    /\ \E v \in Ids(df1) \cap Ids(df2) :
          /\ "estado" \in df1.cols \cap df2.cols
          /\ isna(Fila(df1, v).estado)
          /\ isna(Fila(df2, v).estado)
    /\ Len(modificaciones_file.lineas) = Len(parts) + 1

\* C11: a snapshot compared with an identical snapshot gives no membership
\* event and no modification event: neither call adds a row to adiciones.csv
\* or to modificaciones.csv.
C11_DiffDeIdenticos ==
    [][(d_pc = "entrada" /\ df1 = df2) =>
          /\ parts' = <<>>
          /\ eventos' = <<>>
          /\ modificaciones_file' = modificaciones_file
          /\ adiciones_file' = adiciones_file]_vars

\* detectarModificaciones has compared two identical snapshots that have a
\* missing cell (NaN is different from NaN for Series.ne)
C11_Witness ==
    /\ d_pc = "modificaciones_-"
    /\ df1 = df2
    /\ Len(df1.filas) = NumIds
    /\ "estado" \in df1.cols
    /\ \E i \in DOMAIN df1.filas : df1.filas[i].estado = NaN
    /\ \E i \in DOMAIN df1.filas : df1.filas[i].estado = NoneJson
    /\ parts = <<>>
    /\ modificaciones_file = ModificacionesViejas

(***************************************************************************)
(* Specification of consecutive comparisons writing the same logs          *)
(***************************************************************************)
\* field values of the snapshots compared here: estado is a text, one of
\* them the text "N/A"
CamposBitacora == {"n", "m"} \X {"a", "N/A"}

InitBitacora ==
    /\ d_pc = "entrada"
    /\ \E previos \in InstantaneasDe(CamposBitacora) \ {<<>>} :
          df1 = json_normalize(previos)
    /\ \E actuales \in InstantaneasDe(CamposBitacora) \ {<<>>} :
          df2 = json_normalize(actuales)
    /\ timestamp = 1
    /\ eventos = <<>>
    /\ parts = <<>>
    /\ adiciones_file = Ausente
    /\ modificaciones_file = Ausente
    /\ MainInactivo
    /\ RetryInactivo

\* the next run (lines 176, 190-192): a later timestamp, the snapshot just
\* compared is the stored one, and the catalog is either as it is now or back
\* to what it was before
Bitacora_siguiente ==
    /\ d_pc = "modificaciones_-"
    /\ timestamp < MaxComparaciones
    /\ timestamp' = timestamp + 1
    /\ df1' = df2
    /\ df2' \in {df1, df2}
    /\ d_pc' = "entrada"
    /\ parts' = <<>>
    /\ UNCHANGED <<eventos, adiciones_file, modificaciones_file>>
    /\ UNCHANGED <<mainVars, retryVars>>

NextBitacora ==
    \/ Diff_detectarAdiciones
    \/ Diff_detectarModificaciones
    \/ Bitacora_siguiente

SpecBitacora == InitBitacora /\ [][NextBitacora]_vars

(***************************************************************************)
(* Properties of the logs                                                  *)
(***************************************************************************)
\* every row of the file before the step is a row of the file after it
SeConserva(antes, despues) ==
    /\ antes.existe => despues.existe
    /\ \A r \in Range(antes.lineas) : r \in Range(despues.lineas)

ClaveAdic(e) ==
    <<e.timestamp, e.id,
      CASE e.tipo = "aparece" -> 1 [] e.tipo = "desaparece" -> 2>>

\* C13: whenever a log has been written, the whole file is in ascending order
\* of (timestamp, id, columna) for modificaciones.csv and of
\* (timestamp, id, tipo) for adiciones.csv.
C13_BitacorasOrdenadas ==
    /\ \A i \in 1..(Len(modificaciones_file.lineas) - 1) :
          ~LexMenor(ClaveMod(modificaciones_file.lineas[i + 1]),
                    ClaveMod(modificaciones_file.lineas[i]))
    /\ \A i \in 1..(Len(adiciones_file.lineas) - 1) :
          ~LexMenor(ClaveAdic(adiciones_file.lineas[i + 1]),
                    ClaveAdic(adiciones_file.lineas[i]))

\* the second comparison has added, to the rows of the first, rows that were
\* not built in the order of the file
C13_Witness ==
    /\ d_pc = "modificaciones_-"
    /\ timestamp = 2
    /\ \E r \in Range(modificaciones_file.lineas) : r.timestamp = 1
    /\ \E i \in 1..(Len(parts) - 1) :
          LexMenor(ClaveMod(parts[i + 1]), ClaveMod(parts[i]))
    /\ Len(modificaciones_file.lineas) > Len(parts)

(***************************************************************************)
(* Specification with a catalog that changes while it is listed            *)
(***************************************************************************)
\* between two page requests the server's catalog gets a new first row (here
\* its last row moves to the front), so every later row is one place further
\* down (the answer of line 25 is computed by the server at each request)
Catalogo_cambia ==
    /\ pc = "listar"
    /\ Len(catalogo) > 1
    /\ catalogo' = <<catalogo[Len(catalogo)]>>
                     \o SubSeq(catalogo, 1, Len(catalogo) - 1)
    /\ UNCHANGED <<pc, corrida, page, tramitesListado, refs, subset, task,
                   sema, gt_tramites, gt_errores, peticiones, tramites,
                   errores_tramites, RETRIES, tramites_file, errores_file>>
    /\ UNCHANGED <<diffVars, logVars, retryVars>>

NextCatalogo ==
    \/ Next
    \/ Catalogo_cambia

SpecCatalogo == Init /\ [][NextCatalogo]_vars

\* C14: in the snapshot stored in tramites.jsonl every id occurs at most
\* once, also when the catalog changes between page requests and when page
\* requests fail and are repeated.
C14_IdsUnicosEnInstantanea ==
    \A id \in 1..NumTramites : Veces(tramites_file.lineas, id) <= 1

\* C17: after the first getTramites call and after every further pass of
\* main, the ids of tramites and the ids of errores_tramites are disjoint,
\* together they are the ids of tramitesListado, and the two lengths add up to
\* the length of tramitesListado.
C17_NingunaReferenciaPerdida ==
    pc = "main_181" =>
        /\ Ids([filas |-> tramites]) \cap Ids([filas |-> errores_tramites])
             = {}
        /\ Ids([filas |-> tramites]) \cup Ids([filas |-> errores_tramites])
             = Ids([filas |-> tramitesListado])
        /\ Len(tramites) + Len(errores_tramites) = Len(tramitesListado)

(***************************************************************************)
(* Properties of main: first run, listing, slots, what reaches the diff    *)
(***************************************************************************)
\* lista holds the records of data, each as often, in ascending order of id
EsInstantaneaDe(lista, data) ==
    /\ Len(lista) = Len(data)
    /\ \A id \in 1..NumTramites : Veces(lista, id) = Veces(data, id)
    /\ \A i \in 1..(Len(lista) - 1) : lista[i].id <= lista[i + 1].id

ListadoEnOrden ==
    /\ pc = "listar" =>
          /\ (page - 1) * PageSize < NumTramites
          /\ tramitesListado = SubSeq(Catalogo, 1, (page - 1) * PageSize)
          /\ ENABLED (listarTramites_pagina \/ listarTramites_ultima)
    /\ pc /= "listar" => tramitesListado = Catalogo

\* C16: with a fixed catalog of NumTramites records and the right total,
\* whatever requests fail, the listing never skips or repeats a page (what is
\* listed is always the pages before the current one, in order), and every
\* call of listarTramites returns, with exactly the catalog in its order.
C16_ListarTermina ==
    /\ []ListadoEnOrden
    /\ (pc = "listar") ~> (pc = "main_179" /\ tramitesListado = Catalogo)

\* the listing has returned after more than one page
C16_Witness ==
    /\ pc = "main_179"
    /\ page > 1
    /\ Len(tramitesListado) = NumTramites
    /\ Len(Filas(1)) < NumTramites

Pendientes == {i \in DOMAIN task : task[i] = "pendiente"}

\* C18: when all the tasks of a getTramites call have finished, whatever
\* their outcomes, the semaphore has max_concurrent free slots; and while
\* tasks wait with no request in flight, one of them can take a slot, also
\* after failures.
C18_CupoDevuelto ==
    EnGetTramites =>
        /\ TodosHechos => sema = MaxConcurrent
        /\ (Pendientes /= {} /\ EnVuelo = {}) =>
              ENABLED (\E i \in DOMAIN task : fetch_one_entra(i))
        /\ (Pendientes /= {} /\ EnVuelo /= {}) =>
              ENABLED (\E i \in DOMAIN task :
                          \E d \in Desenlaces : fetch_one_termina(i, d))

\* more tasks than slots, a failure among the finished ones, a task that
\* still waits and no request in flight
C18_Witness ==
    /\ EnGetTramites
    /\ Len(subset) > MaxConcurrent
    /\ gt_errores /= <<>>
    /\ Pendientes /= {}
    /\ EnVuelo = {}
    /\ sema = MaxConcurrent

\* main is at the diff step or past it
TrasElBucle == pc \in {"main_189", "main_198", "fin", "abortado"}

Abortar ==
    /\ pc \in {"listar", "main_179", "getTramites_179", "main_181",
               "getTramites_183", "main_189", "main_198"}
    /\ pc' = "matado"
    /\ UNCHANGED <<corrida, page, tramitesListado, refs, subset, task, sema,
                   gt_tramites, gt_errores, peticiones, tramites,
                   errores_tramites, RETRIES, tramites_file, errores_file,
                   catalogo>>
    /\ UNCHANGED <<diffVars, logVars, retryVars>>

\* what open(..., "w") and the first k f.write of lines 203-206 leave
EscrituraParcial(data, k) == Archivo(SubSeq(data, 1, k))

\* the process is killed inside the with block of tramites.jsonl (lines
\* 203-206): the file has been truncated by open and k lines written
Abortar_al_guardar(k) ==
    /\ pc = "main_198"
    /\ tramites /= <<>>
    /\ k < Len(tramites)
    /\ tramites_file' =
           EscrituraParcial(
               Ordenar(tramites,
                       [i \in DOMAIN tramites |-> ClaveId(tramites[i])]), k)
    /\ pc' = "matado"
    /\ UNCHANGED <<corrida, page, tramitesListado, refs, subset, task, sema,
                   gt_tramites, gt_errores, peticiones, tramites,
                   errores_tramites, RETRIES, errores_file, catalogo>>
    /\ UNCHANGED <<diffVars, logVars, retryVars>>

NextAbort ==
    \/ Next
    \/ Abortar
    \/ \E k \in 0..NumTramites : Abortar_al_guardar(k)

SpecAbort == Init /\ [][NextAbort]_vars

\* C19: a step that kills the process leaves tramites.jsonl and
\* errores.jsonl as they were, that is as the last completed run wrote them
\* (no other step writes them but the completed persistence).
C19_AbortoSinEscrituraParcial ==
    [][pc' = "matado" =>
          /\ tramites_file' = tramites_file
          /\ errores_file' = errores_file]_vars

====
